---------------------------- MODULE Spec2Model ----------------------------
(***************************************************************************)
(* State-machine model of the stateful interpreter of                      *)
(* compiler/qsc/src/interpret/stateful.rs: Interpreter::new,               *)
(* Interpreter::interpret_line (one action per arm of its fragment loop),  *)
(* Interpreter::eval_stmt, Interpreter::render_call_stack and get_callable.*)
(* The incremental compiler, the pass pipeline, the evaluator and the      *)
(* call-stack formatter live in other crates; they are modelled by small   *)
(* abstract stand-ins that keep exactly what the interpreter sees of them. *)
(***************************************************************************)
EXTENDS Integers, Sequences, FiniteSets, TLC

VARIABLES
    \* fields of Interpreter (the compiler field is behind CompileFragments)
    store, package, callables, env,
    \* the Err of Interpreter::new; empty when an instance exists
    newErr,
    \* interpret_line: position, argument, locals, value returned to the caller
    pc, line, frags, idx, result, ret,
    \* history of the line in progress: what the loop did with each fragment,
    \* and the callable table and environment the line started from
    trace, cs0, env0,
    \* history of the line that returned last
    done

vars == <<store, package, callables, env, newErr,
          pc, line, frags, idx, result, ret, trace, cs0, env0, done>>

(***************************************************************************)
(* Bounds of the model.                                                    *)
(***************************************************************************)
\* longest fragment sequence the compiler returns for one line
MaxFrags == 2

(***************************************************************************)
(* Option<T>: None is the empty sequence, Some(x) the one-element one.     *)
(***************************************************************************)
None == <<>>

Some(x) == <<x>>

(***************************************************************************)
(* Values, declarations, items, compile units.                             *)
(***************************************************************************)
Unit == [t |-> "unit", n |-> 0]

IntVal(n) == [t |-> "int", n |-> n]

\* a GlobalId is the pair <<package, item>>
NoCallee == <<0, 0>>

\* CallableDecl bodies: return a constant, fail at run time, or call on
DRet(n) == [kind |-> "ret", val |-> n, callee |-> NoCallee]

DFail == [kind |-> "fail", val |-> 0, callee |-> NoCallee]

DCall(g) == [kind |-> "call", val |-> 0, callee |-> g]

CallableItem(d) == [kind |-> "Callable", decl |-> d]

OtherItem == [kind |-> "Other", decl |-> DFail]

\* compile::std(): the standard library unit
StdUnit == [items |-> (0 :> CallableItem(DFail)) @@ (1 :> OtherItem)]

\* CompileUnit::default(): the empty unit reserved for the session
DefaultUnit == [items |-> <<>>]

\* the (unit, errors) pairs compile() yields for the initial sources
SourceChoices ==
    { [unit |-> [items |-> (0 :> CallableItem(DRet(2))) @@ (1 :> OtherItem)],
       errors |-> <<>>],
      [unit |-> [items |-> (0 :> CallableItem(DRet(2)))],
       errors |-> <<"c1", "c2">>] }

(***************************************************************************)
(* IndexMap and PackageStore.                                              *)
(***************************************************************************)
\* IndexMap::new
EmptyMap == <<>>

\* IndexMap::get
MapGet(m, k) == IF k \in DOMAIN m THEN Some(m[k]) ELSE None

\* variant: insert keeps the entry that is already there (entry().or_insert)
MapInsert_keep(m, k, v) ==
    [x \in (DOMAIN m) \cup {k} |-> IF x \in DOMAIN m THEN m[x] ELSE v]

\* variant: insert starts the table over with the one new entry
MapInsert_only(m, k, v) == [x \in {k} |-> v]

\* IndexMap::insert: overwrites an existing entry for the same key
MapInsert(m, k, v) == [x \in (DOMAIN m) \cup {k} |-> IF x = k THEN v ELSE m[x]]

\* PackageStore::insert appends; the new handle is the old length
StoreInsert(s, unit) == Append(s, unit)

StoreNextId(s) == Len(s)

\* PackageStore::get
StoreGet(s, p) == IF p + 1 \in DOMAIN s THEN Some(s[p + 1]) ELSE None

(***************************************************************************)
(* get_callable                                                            *)
(***************************************************************************)
\* variant: every reference is looked up in the store, the session's too
get_callable_store(st, cs, pkg, id) ==
    LET unit == StoreGet(st, id[1])
    IN IF unit = None THEN None
       ELSE LET item == MapGet(unit[1].items, id[2])
            IN IF item = None THEN None
               ELSE IF item[1].kind = "Callable"
                    THEN Some(item[1].decl)
                    ELSE None

get_callable(st, cs, pkg, id) ==
    IF id[1] = pkg
    THEN MapGet(cs, id[2])
    ELSE LET unit == StoreGet(st, id[1])
         IN IF unit = None THEN None
            ELSE LET item == MapGet(unit[1].items, id[2])
                 IN IF item = None THEN None
                    ELSE IF item[1].kind = "Callable"
                         THEN Some(item[1].decl)
                         ELSE None

(***************************************************************************)
(* Interpreter::new, as a function of its arguments.  The result is the    *)
(* record of the fields of Self, plus the error list (empty on Ok).        *)
(***************************************************************************)
\* Env::with_empty_scope: one scope, nothing bound
Vars == {"x"}

EmptyEnv == << [v \in Vars |-> None] >>

\* CompileError(WithSource::from_map(&unit.sources, error, None))
CompileErrorOf(e) == [error |-> e, stack_trace |-> None]

\* variant: the session handle is taken before the sources' unit is inserted
New_early(std, src) ==
    LET store0 == <<>>
        store1 == IF std THEN StoreInsert(store0, StdUnit) ELSE store0
    IN IF src.errors # <<>>
       THEN [ok |-> FALSE,
             errs |-> [k \in 1..Len(src.errors) |-> CompileErrorOf(src.errors[k])],
             store |-> <<>>, package |-> 0,
             callables |-> EmptyMap, env |-> EmptyEnv]
       ELSE LET pkg == StoreNextId(store1)
                store2 == StoreInsert(store1, src.unit)
                store3 == StoreInsert(store2, DefaultUnit)
            IN [ok |-> TRUE, errs |-> <<>>,
                store |-> store3, package |-> pkg,
                callables |-> EmptyMap, env |-> EmptyEnv]

New(std, src) ==
    LET store0 == <<>>
        store1 == IF std THEN StoreInsert(store0, StdUnit) ELSE store0
    IN IF src.errors # <<>>
       THEN [ok |-> FALSE,
             errs |-> [k \in 1..Len(src.errors) |-> CompileErrorOf(src.errors[k])],
             store |-> <<>>, package |-> 0,
             callables |-> EmptyMap, env |-> EmptyEnv]
       ELSE LET store2 == StoreInsert(store1, src.unit)
                pkg == StoreNextId(store2)
                store3 == StoreInsert(store2, DefaultUnit)
            IN [ok |-> TRUE, errs |-> <<>>,
                store |-> store3, package |-> pkg,
                callables |-> EmptyMap, env |-> EmptyEnv]

(***************************************************************************)
(* Fragments, as the incremental compiler hands them over.                 *)
(***************************************************************************)
ItemIds == {0, 1}

NoStmt == [kind |-> "none", target |-> NoCallee, var |-> "x", val |-> 0]

SCall(g) == [kind |-> "call", target |-> g, var |-> "x", val |-> 0]

SLet(x, n) == [kind |-> "let", target |-> NoCallee, var |-> x, val |-> n]

SRead(x) == [kind |-> "read", target |-> NoCallee, var |-> x, val |-> 0]

FCallable(i, d) ==
    [tag |-> "Callable", id |-> i, decl |-> d, stmt |-> NoStmt, errors |-> <<>>]

FItem(i) ==
    [tag |-> "Item", id |-> i, decl |-> DFail, stmt |-> NoStmt, errors |-> <<>>]

FStmt(s) ==
    [tag |-> "Stmt", id |-> 0, decl |-> DFail, stmt |-> s, errors |-> <<>>]

FError(es) ==
    [tag |-> "Error", id |-> 0, decl |-> DFail, stmt |-> NoStmt, errors |-> es]

\* bodies a session declaration can have
SessionDecls == {DRet(1), DCall(<<0, 0>>)}

\* statements a line can contain, for session module handle pkg
Stmts(pkg) == {SCall(<<pkg, 0>>), SCall(<<pkg, 1>>), SCall(<<0, 0>>),
               SLet("x", 1), SRead("x")}

\* error sets: one or more compile diagnostics
ErrorSets == {<<"e1">>, <<"e1", "e2">>}

Fragments(pkg) ==
    {FCallable(i, d) : i \in ItemIds, d \in SessionDecls}
    \cup {FItem(i) : i \in ItemIds}
    \cup {FStmt(s) : s \in Stmts(pkg)}
    \cup {FError(es) : es \in ErrorSets}

\* Compiler::compile_fragments: every fragment sequence up to MaxFrags
CompileFragments(pkg) ==
    UNION {[1..n -> Fragments(pkg)] : n \in 0..MaxFrags}

\* run_default_passes_for_fragment: rewrites inside the fragment, keeps its
\* kind, id and meaning; at this level of abstraction the fragment is kept
RunDefaultPasses(f) == f

LineTexts == {"lineA", "lineB"}

(***************************************************************************)
(* The evaluator (qsc_eval::eval_stmt) behind Interpreter::eval_stmt.      *)
(* Results are records [ok, value, error, stack, env].                     *)
(***************************************************************************)
EvOk(v, e) == [ok |-> TRUE, value |-> v, error |-> "", stack |-> <<>>, env |-> e]

EvErr(msg, stk, e) ==
    [ok |-> FALSE, value |-> Unit, error |-> msg, stack |-> stk, env |-> e]

\* the references a resolver can be asked about: handles 0..3 (one more
\* than the store ever holds), local ids 0..2 (one more than are declared)
GlobalIds == (0..3) \X (0..2)

\* the resolver closure |id| get_callable(&self.store, &self.callables,
\* self.package, id), as the function it denotes
Resolver(st, cs, pkg) == [id \in GlobalIds |-> get_callable(st, cs, pkg, id)]

\* run the body of a resolved callable; stk holds the frames entered so far.
\* Terminates: "call" bodies exist only in the session and target the store.
RECURSIVE EvalBody(_, _, _, _)
EvalBody(d, stk, resolve, e) ==
    CASE d.kind = "ret" -> EvOk(IntVal(d.val), e)
      [] d.kind = "fail" -> EvErr("userfail", stk, e)
      [] OTHER ->
            LET r == resolve[d.callee]
            IN IF r = None THEN EvErr("unresolved", stk, e)
               ELSE EvalBody(r[1], Append(stk, d.callee), resolve, e)

qsc_eval_stmt(s, resolve, e) ==
    CASE s.kind = "let" ->
            EvOk(Unit, [e EXCEPT ![Len(e)][s.var] = Some(s.val)])
      [] s.kind = "read" ->
            IF e[Len(e)][s.var] = None
            THEN EvErr("unbound", <<>>, e)
            ELSE EvOk(IntVal(e[Len(e)][s.var][1]), e)
      [] OTHER ->
            LET r == resolve[s.target]
            IN IF r = None THEN EvErr("unresolved", <<>>, e)
               ELSE EvalBody(r[1], <<s.target>>, resolve, e)

\* Interpreter::eval_stmt
eval_stmt(st, cs, pkg, e, s) == qsc_eval_stmt(s, Resolver(st, cs, pkg), e)

(***************************************************************************)
(* The diagnostic renderer (format_call_stack) behind render_call_stack.   *)
(* A rendered trace is the error message followed by one entry per frame.  *)
(***************************************************************************)
format_call_stack(resolve, stk, msg) ==
    <<[frame |-> "error", msg |-> msg, id |-> NoCallee]>> \o
    [k \in 1..Len(stk) |->
        IF resolve[stk[k]] = None
        THEN [frame |-> "unresolved", msg |-> "", id |-> stk[k]]
        ELSE [frame |-> "resolved", msg |-> "", id |-> stk[k]]]

\* Interpreter::render_call_stack
render_call_stack(st, cs, pkg, stk, msg) ==
    format_call_stack(Resolver(st, cs, pkg), stk, msg)

(***************************************************************************)
(* Line errors and the return value of interpret_line.                     *)
(***************************************************************************)
\* LineError(WithSource::new(source, kind(error), stack_trace))
LineError(src, k, e, st) ==
    [source |-> src, kind |-> k, error |-> e, stack_trace |-> st]

Ok(v) == [ok |-> TRUE, value |-> v, errs |-> <<>>]

Err(es) == [ok |-> FALSE, value |-> Unit, errs |-> es]

\* variant: the call stack is rendered whether or not it is empty
EvalErrors_always(st, cs, pkg, ln, r) ==
    << LineError(ln, "Eval", r.error,
                 Some(render_call_stack(st, cs, pkg, r.stack, r.error))) >>

\* the Err of the Stmt arm: one Eval diagnostic, a trace iff the stack is
\* not empty
EvalErrors(st, cs, pkg, ln, r) ==
    LET stack_trace == IF r.stack = <<>>
                       THEN None
                       ELSE Some(render_call_stack(st, cs, pkg, r.stack, r.error))
    IN << LineError(ln, "Eval", r.error, stack_trace) >>

\* variant: only the first error of the set is reported
CompileErrors_first(ln, errors) ==
    << LineError(ln, "Compile", errors[1], None) >>

\* the Err of the Error arm: one Compile diagnostic per error, in order
CompileErrors(ln, errors) ==
    [k \in 1..Len(errors) |-> LineError(ln, "Compile", errors[k], None)]

\* history entry: the fragment the loop took and what it did with it
Handled(f, what, v) == [frag |-> f, outcome |-> what, value |-> v]

\* local ids of the callable items among the first n fragments of fs
RegisteredIds(fs, n) == {fs[k].id : k \in {j \in 1..n : fs[j].tag = "Callable"}}

\* history summary of a returned line: fragments handled without failure,
\* fragments never reached, ids registered, call stack of the failure
Summary(h, s, reg, stk) ==
    [handled |-> h, skipped |-> s, registered |-> reg, stack |-> stk]

NoLine == ""

(***************************************************************************)
(* Init: the state Interpreter::new leaves, for every choice of arguments. *)
(***************************************************************************)
Init ==
    \E std \in BOOLEAN, src \in SourceChoices :
        LET n == New(std, src)
        IN /\ store = n.store
           /\ package = n.package
           /\ callables = n.callables
           /\ env = n.env
           /\ newErr = n.errs
           /\ pc = "Ready"
           /\ line = NoLine
           /\ frags = <<>>
           /\ idx = 1
           /\ result = Unit
           /\ ret = None
           /\ trace = <<>>
           /\ cs0 = n.callables
           /\ env0 = n.env
           /\ done = Summary(0, 0, {}, <<>>)

(***************************************************************************)
(* interpret_line.  The locals (line, frags, idx, result) exist between    *)
(* StartLine and the return step; a return step drops them.                *)
(***************************************************************************)
Constructed == newErr = <<>>

InLoop == Constructed /\ pc = "InLine" /\ idx <= Len(frags)

Cur == RunDefaultPasses(frags[idx])

\* what every return leaves behind: (pc, line, frags, idx, result, trace)
Returned ==
    /\ pc' = "Ready"
    /\ line' = NoLine
    /\ frags' = <<>>
    /\ idx' = 1
    /\ result' = Unit
    /\ trace' = <<>>
    /\ cs0' = callables'
    /\ env0' = env'

\* variant: a line that follows a failed one starts from an empty table
StartLine_fresh ==
    /\ Constructed
    /\ pc = "Ready"
    /\ \E ln \in LineTexts, fs \in CompileFragments(package) :
          /\ line' = ln
          /\ frags' = fs
    /\ idx' = 1
    /\ result' = Unit
    /\ ret' = None
    /\ trace' = <<>>
    /\ callables' = IF ret # None /\ ~ret[1].ok THEN EmptyMap ELSE callables
    /\ cs0' = callables'
    /\ env0' = env
    /\ done' = Summary(0, 0, {}, <<>>)
    /\ pc' = "InLine"
    /\ UNCHANGED <<store, package, env, newErr>>

\* variant: the running result starts from the value the last line returned
StartLine_carry ==
    /\ Constructed
    /\ pc = "Ready"
    /\ \E ln \in LineTexts, fs \in CompileFragments(package) :
          /\ line' = ln
          /\ frags' = fs
    /\ idx' = 1
    /\ result' = IF ret # None /\ ret[1].ok THEN ret[1].value ELSE Unit
    /\ ret' = None
    /\ trace' = <<>>
    /\ cs0' = callables
    /\ env0' = env
    /\ done' = Summary(0, 0, {}, <<>>)
    /\ pc' = "InLine"
    /\ UNCHANGED <<store, package, callables, env, newErr>>

\* entry: result = unit, the line is compiled into all its fragments
StartLine ==
    /\ Constructed
    /\ pc = "Ready"
    /\ \E ln \in LineTexts, fs \in CompileFragments(package) :
          /\ line' = ln
          /\ frags' = fs
    /\ idx' = 1
    /\ result' = Unit
    /\ ret' = None
    /\ trace' = <<>>
    /\ cs0' = callables
    /\ env0' = env
    /\ done' = Summary(0, 0, {}, <<>>)
    /\ pc' = "InLine"
    /\ UNCHANGED <<store, package, callables, env, newErr>>

\* variant: registering a callable leaves the running result as it is
RegisterCallable_noreset ==
    /\ InLoop
    /\ Cur.tag = "Callable"
    /\ callables' = MapInsert(callables, Cur.id, Cur.decl)
    /\ trace' = Append(trace, Handled(Cur, "registered", Unit))
    /\ idx' = idx + 1
    /\ UNCHANGED <<store, package, env, newErr, pc, line, frags, ret,
                   result, cs0, env0, done>>

\* variant: the declaration is also written into the session's store unit
RegisterCallable_store ==
    /\ InLoop
    /\ Cur.tag = "Callable"
    /\ callables' = MapInsert(callables, Cur.id, Cur.decl)
    /\ store' = [store EXCEPT ![package + 1].items =
                    MapInsert(store[package + 1].items, Cur.id,
                              CallableItem(Cur.decl))]
    /\ result' = Unit
    /\ trace' = Append(trace, Handled(Cur, "registered", Unit))
    /\ idx' = idx + 1
    /\ UNCHANGED <<package, env, newErr, pc, line, frags, ret,
                   cs0, env0, done>>

\* Fragment::Item with ItemKind::Callable
RegisterCallable ==
    /\ InLoop
    /\ Cur.tag = "Callable"
    /\ callables' = MapInsert(callables, Cur.id, Cur.decl)
    /\ result' = Unit
    /\ trace' = Append(trace, Handled(Cur, "registered", Unit))
    /\ idx' = idx + 1
    /\ UNCHANGED <<store, package, env, newErr, pc, line, frags, ret,
                   cs0, env0, done>>

\* variant: a non-callable item evicts the table entry under its id
DiscardItem_evict ==
    /\ InLoop
    /\ Cur.tag = "Item"
    /\ callables' = [i \in (DOMAIN callables) \ {Cur.id} |-> callables[i]]
    /\ trace' = Append(trace, Handled(Cur, "discarded", Unit))
    /\ idx' = idx + 1
    /\ UNCHANGED <<store, package, env, newErr, pc, line, frags,
                   result, ret, cs0, env0, done>>

\* variant: a non-callable item is filed in the session's unit of the store
DiscardItem_store ==
    /\ InLoop
    /\ Cur.tag = "Item"
    /\ store' = [store EXCEPT ![package + 1].items =
                    MapInsert(store[package + 1].items, Cur.id, OtherItem)]
    /\ trace' = Append(trace, Handled(Cur, "discarded", Unit))
    /\ idx' = idx + 1
    /\ UNCHANGED <<package, callables, env, newErr, pc, line, frags,
                   result, ret, cs0, env0, done>>

\* variant: the kind of the item is not looked at, every item is registered
DiscardItem_insert ==
    /\ InLoop
    /\ Cur.tag = "Item"
    /\ callables' = MapInsert(callables, Cur.id, Cur.decl)
    /\ result' = Unit
    /\ trace' = Append(trace, Handled(Cur, "discarded", Unit))
    /\ idx' = idx + 1
    /\ UNCHANGED <<store, package, env, newErr, pc, line, frags, ret,
                   cs0, env0, done>>

\* variant: discarding an item resets the running result
DiscardItem_reset ==
    /\ InLoop
    /\ Cur.tag = "Item"
    /\ result' = Unit
    /\ trace' = Append(trace, Handled(Cur, "discarded", Unit))
    /\ idx' = idx + 1
    /\ UNCHANGED <<store, package, callables, env, newErr, pc, line, frags,
                   ret, cs0, env0, done>>

\* Fragment::Item(_)
DiscardItem ==
    /\ InLoop
    /\ Cur.tag = "Item"
    /\ trace' = Append(trace, Handled(Cur, "discarded", Unit))
    /\ idx' = idx + 1
    /\ UNCHANGED <<store, package, callables, env, newErr, pc, line, frags,
                   result, ret, cs0, env0, done>>

\* variant: the value of a statement does not become the running result
EvalStmtOk_stale ==
    /\ InLoop
    /\ Cur.tag = "Stmt"
    /\ LET r == eval_stmt(store, callables, package, env, Cur.stmt)
       IN /\ r.ok
          /\ env' = r.env
          /\ trace' = Append(trace, Handled(Cur, "value", r.value))
    /\ idx' = idx + 1
    /\ UNCHANGED <<store, package, callables, newErr, pc, line, frags, ret,
                   result, cs0, env0, done>>

\* variant: the statement is evaluated on a copy of the environment
EvalStmtOk_clone ==
    /\ InLoop
    /\ Cur.tag = "Stmt"
    /\ LET r == eval_stmt(store, callables, package, env, Cur.stmt)
       IN /\ r.ok
          /\ result' = r.value
          /\ trace' = Append(trace, Handled(Cur, "value", r.value))
    /\ idx' = idx + 1
    /\ UNCHANGED <<store, package, callables, env, newErr, pc, line, frags,
                   ret, cs0, env0, done>>

\* variant: a store callable that a statement called is cached in the table
EvalStmtOk_cache ==
    /\ InLoop
    /\ Cur.tag = "Stmt"
    /\ LET r == eval_stmt(store, callables, package, env, Cur.stmt)
           t == Cur.stmt.target
       IN /\ r.ok
          /\ env' = r.env
          /\ result' = r.value
          /\ trace' = Append(trace, Handled(Cur, "value", r.value))
          /\ callables' =
                IF Cur.stmt.kind = "call" /\ t[1] # package
                THEN MapInsert(callables, t[2],
                               get_callable(store, callables, package, t)[1])
                ELSE callables
    /\ idx' = idx + 1
    /\ UNCHANGED <<store, package, newErr, pc, line, frags, ret,
                   cs0, env0, done>>

\* Fragment::Stmt, eval_stmt returns Ok(value)
EvalStmtOk ==
    /\ InLoop
    /\ Cur.tag = "Stmt"
    /\ LET r == eval_stmt(store, callables, package, env, Cur.stmt)
       IN /\ r.ok
          /\ env' = r.env
          /\ result' = r.value
          /\ trace' = Append(trace, Handled(Cur, "value", r.value))
    /\ idx' = idx + 1
    /\ UNCHANGED <<store, package, callables, newErr, pc, line, frags, ret,
                   cs0, env0, done>>

\* variant: the call stack is rendered with the table the line started from
EvalStmtErr_stale ==
    /\ InLoop
    /\ Cur.tag = "Stmt"
    /\ LET r == eval_stmt(store, callables, package, env, Cur.stmt)
       IN /\ ~r.ok
          /\ env' = r.env
          /\ ret' = Some(Err(EvalErrors(store, cs0, package, line, r)))
          /\ done' = Summary(idx - 1, Len(frags) - idx,
                             RegisteredIds(frags, idx - 1), r.stack)
    /\ UNCHANGED <<store, package, callables, newErr>>
    /\ Returned

\* Fragment::Stmt, eval_stmt returns Err((error, call_stack))
EvalStmtErr ==
    /\ InLoop
    /\ Cur.tag = "Stmt"
    /\ LET r == eval_stmt(store, callables, package, env, Cur.stmt)
       IN /\ ~r.ok
          /\ env' = r.env
          /\ ret' = Some(Err(EvalErrors(store, callables, package, line, r)))
          /\ done' = Summary(idx - 1, Len(frags) - idx,
                             RegisteredIds(frags, idx - 1), r.stack)
    /\ UNCHANGED <<store, package, callables, newErr>>
    /\ Returned

\* variant: an error set is skipped like an uninteresting item
CompileErr_skip ==
    /\ InLoop
    /\ Cur.tag = "Error"
    /\ trace' = Append(trace, Handled(Cur, "discarded", Unit))
    /\ idx' = idx + 1
    /\ UNCHANGED <<store, package, callables, env, newErr, pc, line, frags,
                   result, ret, cs0, env0, done>>

\* variant: a compile error restores the table the line started from
CompileErr_rollback ==
    /\ InLoop
    /\ Cur.tag = "Error"
    /\ ret' = Some(Err(CompileErrors(line, Cur.errors)))
    /\ done' = Summary(idx - 1, Len(frags) - idx,
                       RegisteredIds(frags, idx - 1), <<>>)
    /\ callables' = cs0
    /\ UNCHANGED <<store, package, env, newErr>>
    /\ Returned

\* Fragment::Error(errors)
CompileErr ==
    /\ InLoop
    /\ Cur.tag = "Error"
    /\ ret' = Some(Err(CompileErrors(line, Cur.errors)))
    /\ done' = Summary(idx - 1, Len(frags) - idx,
                       RegisteredIds(frags, idx - 1), <<>>)
    /\ UNCHANGED <<store, package, callables, env, newErr>>
    /\ Returned

\* the loop is exhausted: Ok(result)
ReturnOk ==
    /\ Constructed
    /\ pc = "InLine"
    /\ idx > Len(frags)
    /\ ret' = Some(Ok(result))
    /\ done' = Summary(Len(frags), 0, RegisteredIds(frags, Len(frags)), <<>>)
    /\ UNCHANGED <<store, package, callables, env, newErr>>
    /\ Returned

Next ==
    \/ StartLine
    \/ RegisterCallable
    \/ DiscardItem
    \/ EvalStmtOk
    \/ EvalStmtErr
    \/ CompileErr
    \/ ReturnOk

Spec == Init /\ [][Next]_vars

(***************************************************************************)
(* Reference notions the properties are stated with.                       *)
(***************************************************************************)
IsErr(r) == r # None /\ ~r[1].ok

IsOk(r) == r # None /\ r[1].ok

\* resolution through the session's resolver in the current state
Resolve(g) == get_callable(store, callables, package, g)

\* index of the last callable item with local id i among fs[1..n], else 0
LastReg(fs, n, i) ==
    LET S == {k \in 1..n : fs[k].tag = "Callable" /\ fs[k].id = i}
    IN IF S = {} THEN 0 ELSE CHOOSE k \in S : \A j \in S : j <= k

\* index of the last successful let of variable x among fs[1..n], else 0
LastLet(fs, n, x) ==
    LET S == {k \in 1..n : fs[k].tag = "Stmt" /\ fs[k].stmt.kind = "let"
                           /\ fs[k].stmt.var = x}
    IN IF S = {} THEN 0 ELSE CHOOSE k \in S : \A j \in S : j <= k

\* the current fragment is one that ends the line: an error set, or a
\* statement whose evaluation fails in the current state
CurFails ==
    \/ Cur.tag = "Error"
    \/ /\ Cur.tag = "Stmt"
       /\ ~eval_stmt(store, callables, package, env, Cur.stmt).ok

(***************************************************************************)
(* C1: within one call to interpret_line the fragments are handled in the  *)
(* order the compiler produced them, one per step, and handling stops at   *)
(* the first failing fragment: the step that meets an error set or a       *)
(* failing statement returns the error, leaves the callable table alone    *)
(* and leaves every later fragment of the line unhandled.                  *)
(***************************************************************************)
C1_InOrder ==
    pc = "InLine" =>
        /\ Len(trace) = idx - 1
        /\ idx <= Len(frags) + 1
        /\ \A k \in 1..Len(trace) :
              /\ trace[k].frag = frags[k]
              /\ trace[k].outcome \in {"registered", "discarded", "value"}

C1_Step ==
    /\ (pc = "InLine" /\ pc' = "InLine") =>
          /\ frags' = frags
          /\ idx' = idx + 1
          /\ Len(trace') = idx
          /\ trace'[idx].frag = frags[idx]
          /\ ~CurFails
    /\ (InLoop /\ CurFails) =>
          /\ pc' = "Ready"
          /\ IsErr(ret')
          /\ callables' = callables
          /\ done'.handled = idx - 1
          /\ done'.skipped = Len(frags) - idx

C1_StopsAtFirstFailure == [](C1_InOrder) /\ [][C1_Step]_vars

\* a line returned an error and left a later fragment unhandled
C1_Witness ==
    pc = "Ready" /\ IsErr(ret) /\ done.skipped >= 1

(***************************************************************************)
(* C2: no rollback.  When a line returns an error at fragment i, every     *)
(* callable registered and every binding made by fragments 1..i-1 of that  *)
(* line is in the session state the call leaves behind.                    *)
(***************************************************************************)
C2_Step ==
    (pc = "InLine" /\ pc' = "Ready" /\ IsErr(ret')) =>
        /\ \A i \in RegisteredIds(frags, idx - 1) :
              get_callable(store', callables', package', <<package', i>>)
                  = Some(frags[LastReg(frags, idx - 1, i)].decl)
        /\ \A x \in Vars :
              LastLet(frags, idx - 1, x) > 0 =>
                  env'[1][x] = Some(frags[LastLet(frags, idx - 1, x)].stmt.val)

C2_After ==
    (pc = "Ready" /\ IsErr(ret)) =>
        \A i \in done.registered : Resolve(<<package, i>>) # None

C2_NoRollback == [](C2_After) /\ [][C2_Step]_vars

\* a failed line whose earlier fragment registered a callable that the line
\* did not start with
C2_Witness ==
    /\ pc = "Ready" /\ IsErr(ret)
    /\ done.registered # {}
    /\ \A i \in done.registered : Resolve(<<package, i>>) # None

(***************************************************************************)
(* C3: visibility monotonicity.  A local id that is in the callable table  *)
(* resolves, as a session-module reference, to a callable declaration      *)
(* after every further step; no step removes an entry of the table.        *)
(***************************************************************************)
C3_Step ==
    \A i \in DOMAIN callables :
        /\ i \in DOMAIN callables'
        /\ get_callable(store', callables', package', <<package', i>>) # None

C3_VisibilityMonotone == [][C3_Step]_vars

\* a later line that registered nothing ended in an error; the table still
\* holds callables of earlier lines
C3_Witness ==
    /\ pc = "Ready" /\ IsErr(ret)
    /\ done.registered = {}
    /\ callables # EmptyMap

(***************************************************************************)
(* C4: re-declaration is last-write-wins per local id.  While a line runs, *)
(* a session reference whose id the line has registered resolves to the    *)
(* declaration of the last such fragment handled, and the recorded value   *)
(* of every completed call is the one computed with the table as it was    *)
(* when the call ran, whatever was registered afterwards.  A resolution    *)
(* changes only in the step that registers its id, to the new declaration. *)
(***************************************************************************)
\* the callable table after the first n fragments of the running line
TableAt(n) ==
    [i \in (DOMAIN cs0) \cup RegisteredIds(frags, n) |->
        IF LastReg(frags, n, i) > 0
        THEN frags[LastReg(frags, n, i)].decl
        ELSE cs0[i]]

IsSessionCall(f) ==
    f.tag = "Stmt" /\ f.stmt.kind = "call" /\ f.stmt.target[1] = package

C4_InLine ==
    pc = "InLine" =>
        /\ \A i \in RegisteredIds(frags, idx - 1) :
              Resolve(<<package, i>>)
                  = Some(frags[LastReg(frags, idx - 1, i)].decl)
        /\ \A k \in 1..Len(trace) :
              IsSessionCall(trace[k].frag) =>
                  LET r == eval_stmt(store, TableAt(k - 1), package, env,
                                     trace[k].frag.stmt)
                  IN r.ok /\ trace[k].value = r.value

C4_Step ==
    /\ \A i \in 0..2 :
          get_callable(store', callables', package', <<package', i>>)
                # Resolve(<<package, i>>)
          => /\ InLoop /\ Cur.tag = "Callable" /\ Cur.id = i
             /\ get_callable(store', callables', package', <<package', i>>)
                    = Some(Cur.decl)
    /\ (InLoop /\ Cur.tag = "Callable") =>
          get_callable(store', callables', package', <<package', Cur.id>>)
              = Some(Cur.decl)
    /\ (pc = "InLine" /\ pc' = "InLine") =>
          SubSeq(trace', 1, Len(trace)) = trace

C4_LastWriteWins == [](C4_InLine) /\ [][C4_Step]_vars

\* a call through id i completed with the body the line started with, then
\* i was re-declared with another body, under which the call gives another
\* outcome
C4_Witness ==
    /\ pc = "InLine"
    /\ \E k \in 1..Len(trace) :
          /\ IsSessionCall(trace[k].frag)
          /\ LET i == trace[k].frag.stmt.target[2]
                 now == eval_stmt(store, callables, package, env,
                                  trace[k].frag.stmt)
             IN /\ i \in DOMAIN cs0
                /\ LastReg(frags, idx - 1, i) > k
                /\ callables[i] # cs0[i]
                /\ now.ok
                /\ now.value # trace[k].value

(***************************************************************************)
(* C5 as stated: a line whose fragments all succeed returns the value of   *)
(* its last statement fragment, and unit if it has no statement fragment.  *)
(***************************************************************************)
\* index of the last fragment of fs with one of the tags, else 0
LastWithTag(fs, tags) ==
    LET S == {k \in 1..Len(fs) : fs[k].tag \in tags}
    IN IF S = {} THEN 0 ELSE CHOOSE k \in S : \A j \in S : j <= k

OkReturn == pc = "InLine" /\ pc' = "Ready" /\ IsOk(ret')

C5_Original_Step ==
    OkReturn =>
        LET m == LastWithTag(frags, {"Stmt"})
        IN ret'[1].value = IF m > 0 THEN trace[m].value ELSE Unit

C5_Original == [][C5_Original_Step]_vars

(***************************************************************************)
(* C5 amended: a line whose fragments all succeed returns the last         *)
(* computed result: the value of its last statement fragment if no         *)
(* callable-item fragment follows that statement, and unit otherwise (no   *)
(* statement fragment, or a callable declaration after the last one).      *)
(***************************************************************************)
C5_Step ==
    OkReturn =>
        LET m == LastWithTag(frags, {"Stmt", "Callable"})
        IN /\ Len(trace) = Len(frags)
           /\ ret'[1].value = IF m > 0 /\ frags[m].tag = "Stmt"
                              THEN trace[m].value
                              ELSE Unit

C5_LastComputedResult == [][C5_Step]_vars

\* a line that declared a callable and then evaluated a statement returned
\* the statement's value, which is not unit
C5_Witness ==
    /\ pc = "Ready" /\ IsOk(ret)
    /\ done.registered # {}
    /\ ret[1].value # Unit

(***************************************************************************)
(* C6: interpret_line returns a value or a non-empty list of diagnostics.  *)
(* A failing statement gives exactly one diagnostic, of kind Eval; an      *)
(* error set gives one diagnostic of kind Compile per error, in the same   *)
(* order; each diagnostic carries the text of the line.                    *)
(***************************************************************************)
C6_Shape ==
    ret # None =>
        \/ ret[1].ok /\ ret[1].errs = <<>>
        \/ /\ ~ret[1].ok
           /\ ret[1].errs # <<>>
           /\ \/ Len(ret[1].errs) = 1 /\ ret[1].errs[1].kind = "Eval"
              \/ \A k \in 1..Len(ret[1].errs) : ret[1].errs[k].kind = "Compile"

C6_Step ==
    (pc = "InLine" /\ pc' = "Ready" /\ IsErr(ret')) =>
        LET errs == ret'[1].errs
        IN /\ InLoop
           /\ Cur.tag \in {"Stmt", "Error"}
           /\ Cur.tag = "Stmt" =>
                 /\ Len(errs) = 1
                 /\ errs[1].kind = "Eval"
                 /\ errs[1].source = line
                 /\ errs[1].error
                       = eval_stmt(store, callables, package, env, Cur.stmt).error
           /\ Cur.tag = "Error" =>
                 /\ Len(errs) = Len(Cur.errors)
                 /\ \A k \in 1..Len(errs) :
                       /\ errs[k].kind = "Compile"
                       /\ errs[k].source = line
                       /\ errs[k].error = Cur.errors[k]

C6_Diagnostics == [](C6_Shape) /\ [][C6_Step]_vars

\* the line "lineB" ended in an error set of two errors, reported in order
C6_Witness ==
    /\ pc = "Ready" /\ IsErr(ret)
    /\ Len(ret[1].errs) = 2
    /\ ret[1].errs[1].error = "e1" /\ ret[1].errs[2].error = "e2"
    /\ ret[1].errs[1].source = "lineB" /\ ret[1].errs[2].source = "lineB"

(***************************************************************************)
(* C7: a returned diagnostic carries a rendered call-stack trace iff it is *)
(* an Eval error whose captured call stack is not empty.                   *)
(***************************************************************************)
C7_TraceIffNestedEval ==
    (pc = "Ready" /\ IsErr(ret)) =>
        \A k \in 1..Len(ret[1].errs) :
            LET d == ret[1].errs[k]
            IN /\ d.stack_trace # None
                    <=> (d.kind = "Eval" /\ done.stack # <<>>)
               /\ d.stack_trace # None =>
                    Len(d.stack_trace[1]) = 1 + Len(done.stack)

\* a run-time error two calls deep came back with its trace
C7_Witness ==
    /\ pc = "Ready" /\ IsErr(ret)
    /\ ret[1].errs[1].kind = "Eval"
    /\ Len(done.stack) = 2
    /\ ret[1].errs[1].stack_trace # None

(***************************************************************************)
(* C8: no line error is fatal.  After an error return the interpreter is   *)
(* Ready and accepts the next line; that line starts from the callable     *)
(* table and environment the failing line left, with a fresh running       *)
(* result and nothing returned yet; what it returns it returns for its own *)
(* fragments: Ok if none of them fails, and diagnostics that carry its own *)
(* text otherwise.                                                         *)
(***************************************************************************)
C8_Ready ==
    /\ ret # None => pc = "Ready"
    /\ (Constructed /\ pc = "Ready") => ENABLED StartLine

C8_Step ==
    /\ (pc = "InLine" /\ pc' = "Ready" /\ IsErr(ret')) =>
          /\ callables' = callables
          /\ store' = store /\ package' = package
          /\ InLoop /\ Cur.tag = "Stmt" =>
                env' = eval_stmt(store, callables, package, env, Cur.stmt).env
          /\ InLoop /\ Cur.tag = "Error" => env' = env
    /\ (pc = "Ready" /\ IsErr(ret)) =>
          /\ pc' = "InLine"
          /\ callables' = callables /\ env' = env
          /\ store' = store /\ package' = package
          /\ result' = Unit /\ idx' = 1 /\ ret' = None
    /\ (pc = "InLine" /\ pc' = "Ready") =>
          /\ idx > Len(frags) => IsOk(ret')
          /\ IsErr(ret') =>
                \A k \in 1..Len(ret'[1].errs) : ret'[1].errs[k].source = line

C8_NoFatalError == [](C8_Ready) /\ [][C8_Step]_vars

\* a line failed, the table it leaves is not empty and the next line can start
C8_Witness ==
    /\ pc = "Ready" /\ IsErr(ret)
    /\ callables # EmptyMap
    /\ env # EmptyEnv
    /\ ENABLED StartLine

(***************************************************************************)
(* C9: get_callable agrees with the reference resolver on every reference: *)
(* a session reference gives the table entry of its local id, whatever     *)
(* the store holds; any other reference gives item i of module p when that *)
(* module exists, has the item and the item is a callable, whatever the    *)
(* table holds; everything else is not found.                              *)
(***************************************************************************)
RefResolver(st, cs, pkg, g) ==
    IF g[1] = pkg
    THEN IF g[2] \in DOMAIN cs THEN <<cs[g[2]]>> ELSE <<>>
    ELSE IF /\ g[1] + 1 \in 1..Len(st)
            /\ g[2] \in DOMAIN st[g[1] + 1].items
            /\ st[g[1] + 1].items[g[2]].kind = "Callable"
         THEN <<st[g[1] + 1].items[g[2]].decl>>
         ELSE <<>>

C9_ResolverMatchesReference ==
    \A g \in GlobalIds :
        /\ Resolve(g) = RefResolver(store, callables, package, g)
        /\ g[1] = package =>
              Resolve(g) = get_callable(<<>>, callables, package, g)
        /\ g[1] # package =>
              Resolve(g) = get_callable(store, EmptyMap, package, g)

\* a state in which all five cases of the resolver occur: a session entry,
\* a missing session entry, a store callable, a store item that is not a
\* callable, a missing item and a missing module; reached by evaluating a
\* call through the session entry
C9_Witness ==
    /\ pc = "InLine"
    /\ \E k \in 1..Len(trace) :
          IsSessionCall(trace[k].frag) /\ trace[k].outcome = "value"
    /\ Resolve(<<package, 0>>) # None
    /\ Resolve(<<package, 1>>) = None
    /\ Resolve(<<0, 0>>) # None
    /\ Resolve(<<0, 1>>) = None /\ 1 \in DOMAIN store[1].items
    /\ Resolve(<<0, 2>>) = None
    /\ Resolve(<<3, 0>>) = None

(***************************************************************************)
(* C10 as stated: once a reference resolves to a declaration it resolves   *)
(* to that same declaration in every later state.                          *)
(***************************************************************************)
C10_Original_Step ==
    \A g \in GlobalIds :
        Resolve(g) # None =>
            get_callable(store', callables', package', g) = Resolve(g)

C10_Original == [][C10_Original_Step]_vars

(***************************************************************************)
(* C10 amended: a reference that resolves keeps resolving in every later   *)
(* state; a frozen-store reference to the same declaration, a session      *)
(* reference to the same declaration unless a callable item with its local *)
(* id is registered in between, and then to the declaration registered     *)
(* last.                                                                   *)
(***************************************************************************)
C10_Step ==
    \A g \in GlobalIds :
        Resolve(g) # None =>
            \/ get_callable(store', callables', package', g) = Resolve(g)
            \/ /\ g[1] = package
               /\ InLoop /\ Cur.tag = "Callable" /\ Cur.id = g[2]
               /\ get_callable(store', callables', package', g) = Some(Cur.decl)

C10_StableUnlessRedeclared == [][C10_Step]_vars

\* a session reference resolves to another declaration than at the start
\* of the line, while a store reference resolves as it always did
C10_Witness ==
    /\ pc = "InLine"
    /\ \E i \in DOMAIN cs0 : callables[i] # cs0[i]
    /\ Resolve(<<0, 0>>) = get_callable(store, EmptyMap, package, <<0, 0>>)
    /\ Resolve(<<0, 0>>) # None

(***************************************************************************)
(* C11: the Declaration Store is read-only after construction.  In every   *)
(* reachable state the store and the session handle are the ones           *)
(* Interpreter::new built, no step changes them, and a reference whose     *)
(* module handle is not the session's resolves after every step as it did  *)
(* before it (same declaration, or not found).                             *)
(***************************************************************************)
C11_AsBuilt ==
    Constructed =>
        \E std \in BOOLEAN, src \in SourceChoices :
            /\ New(std, src).ok
            /\ store = New(std, src).store
            /\ package = New(std, src).package

C11_Step ==
    /\ store' = store
    /\ package' = package
    /\ \A g \in GlobalIds :
          g[1] # package =>
              get_callable(store', callables', package', g) = Resolve(g)

C11_StoreReadOnly == [](C11_AsBuilt) /\ [][C11_Step]_vars

\* declarations were added to the session and a line failed; the store
\* still has its three units and answers for the standard library
C11_Witness ==
    /\ pc = "Ready" /\ IsErr(ret)
    /\ DOMAIN callables = {0, 1}
    /\ Len(store) = 3
    /\ Resolve(<<0, 0>>) = Some(DFail)
    /\ Resolve(<<1, 0>>) = Some(DRet(2))

(***************************************************************************)
(* C12 as stated: a session reference is not found whenever its local id   *)
(* was never declared or was declared as a non-callable item; in           *)
(* particular it is not found once a non-callable item fragment has been   *)
(* processed under an id that held a callable.                             *)
(***************************************************************************)
\* index of the last item fragment (callable or not) with local id i among
\* fs[1..n], else 0
LastDeclared(fs, n, i) ==
    LET S == {k \in 1..n : fs[k].tag \in {"Callable", "Item"} /\ fs[k].id = i}
    IN IF S = {} THEN 0 ELSE CHOOSE k \in S : \A j \in S : j <= k

C12_Original ==
    pc = "InLine" =>
        \A i \in 0..2 :
            LET m == LastDeclared(frags, idx - 1, i)
            IN (\/ m = 0 /\ i \notin DOMAIN cs0
                \/ m > 0 /\ frags[m].tag = "Item")
               => Resolve(<<package, i>>) = None

(***************************************************************************)
(* C12 amended: a session reference is not found exactly when no callable  *)
(* item has been registered under its local id (never declared, or         *)
(* declared only as non-callable items).  A non-callable item fragment     *)
(* processed under an id that holds a callable leaves the entry in place:  *)
(* the id keeps resolving to that callable.                                *)
(***************************************************************************)
C12_Fresh ==
    (pc = "Ready" /\ ret = None) =>
        \A i \in 0..2 : Resolve(<<package, i>>) = None

C12_InLine ==
    pc = "InLine" =>
        \A i \in 0..2 :
            /\ Resolve(<<package, i>>) = None
                  <=> (i \notin DOMAIN cs0
                       /\ i \notin RegisteredIds(frags, idx - 1))
            /\ Resolve(<<package, i>>) = MapGet(TableAt(idx - 1), i)

C12_Step ==
    /\ \A i \in 0..2 :
          (/\ Resolve(<<package, i>>) = None
           /\ get_callable(store', callables', package', <<package', i>>) # None)
          => (InLoop /\ Cur.tag = "Callable" /\ Cur.id = i)
    /\ (InLoop /\ Cur.tag = "Item") =>
          get_callable(store', callables', package', <<package', Cur.id>>)
              = Resolve(<<package, Cur.id>>)

C12_NotFoundIffNeverCallable ==
    [](C12_Fresh /\ C12_InLine) /\ [][C12_Step]_vars

\* a non-callable item has just been processed under an id that holds a
\* callable, which still resolves; the other id was never registered
C12_Witness ==
    /\ pc = "InLine" /\ idx > 1
    /\ frags[idx - 1].tag = "Item"
    /\ Resolve(<<package, frags[idx - 1].id>>) # None
    /\ Resolve(<<package, 1 - frags[idx - 1].id>>) = None

(***************************************************************************)
(* C13: the binding environment persists across fragments and lines.       *)
(* Every statement is evaluated in the one session environment: while a    *)
(* line runs, the environment is the one the line started from plus the    *)
(* bindings of the statements handled so far, and the value of every read  *)
(* is the binding that was in force when it ran.  No step removes a        *)
(* binding, and only the evaluation of a statement changes the             *)
(* environment; starting a line, registering, discarding and returning an  *)
(* error leave it as it is.                                                *)
(***************************************************************************)
\* the binding of x after the first n fragments of the running line
BindingAt(n, x) ==
    IF LastLet(frags, n, x) > 0
    THEN Some(frags[LastLet(frags, n, x)].stmt.val)
    ELSE env0[1][x]

C13_InLine ==
    pc = "InLine" =>
        /\ Len(env) = 1
        /\ \A x \in Vars : env[1][x] = BindingAt(idx - 1, x)
        /\ \A k \in 1..Len(trace) :
              (trace[k].frag.tag = "Stmt" /\ trace[k].frag.stmt.kind = "read")
              => /\ BindingAt(k - 1, trace[k].frag.stmt.var) # None
                 /\ trace[k].value
                      = IntVal(BindingAt(k - 1, trace[k].frag.stmt.var)[1])

C13_Step ==
    /\ Len(env') = Len(env)
    /\ \A x \in Vars : env[1][x] # None => env'[1][x] # None
    /\ env' # env =>
          /\ InLoop /\ Cur.tag = "Stmt"
          /\ env' = eval_stmt(store, callables, package, env, Cur.stmt).env

C13_EnvPersists == [](C13_InLine) /\ [][C13_Step]_vars

\* a statement read, as 1, a variable that an earlier line had bound
C13_Witness ==
    /\ pc = "InLine"
    /\ env0[1]["x"] = Some(1)
    /\ \E k \in 1..Len(trace) :
          /\ trace[k].frag.tag = "Stmt" /\ trace[k].frag.stmt.kind = "read"
          /\ LastLet(frags, k, "x") = 0
          /\ trace[k].value = IntVal(1)

(***************************************************************************)
(* C14: construction is all-or-nothing.  Interpreter::new gives an         *)
(* instance exactly when the initial sources compile without errors.       *)
(* Without an instance the result is the non-empty list of the sources'    *)
(* compile diagnostics and nothing can ever run.  With an instance the     *)
(* callable table is empty, the environment is one empty scope, and the    *)
(* session handle is the handle of a fresh empty unit, the last of the     *)
(* store, after the standard library (if any) and the sources' unit.       *)
(***************************************************************************)
C14_Decides ==
    \A std \in BOOLEAN, src \in SourceChoices :
        /\ New(std, src).ok <=> src.errors = <<>>
        /\ New(std, src).ok <=> New(std, src).errs = <<>>

C14_Fresh ==
    (pc = "Ready" /\ ret = None) =>
        \/ /\ newErr # <<>>
           /\ \E src \in SourceChoices :
                 /\ Len(newErr) = Len(src.errors)
                 /\ \A k \in 1..Len(newErr) : newErr[k].error = src.errors[k]
        \/ /\ newErr = <<>>
           /\ callables = <<>>
           /\ env = << [x \in Vars |-> <<>>] >>
           /\ \E std \in BOOLEAN, src \in SourceChoices :
                 /\ src.errors = <<>>
                 /\ store = (IF std THEN <<StdUnit>> ELSE <<>>)
                                \o <<src.unit, DefaultUnit>>
                 /\ package = (IF std THEN 2 ELSE 1)

C14_NoInstance ==
    newErr # <<>> => (pc = "Ready" /\ ret = None /\ ~ENABLED Next)

C14_AllOrNothing == C14_Decides /\ C14_Fresh /\ C14_NoInstance

\* the instance built with the standard library, before its first line
C14_Witness ==
    /\ pc = "Ready" /\ ret = None /\ Constructed
    /\ Len(store) = 3 /\ package = 2
    /\ store[1] = StdUnit /\ store[3] = DefaultUnit
    /\ callables = EmptyMap /\ env = EmptyEnv

(***************************************************************************)
(* C15: resolution is a pure read.  A step in which the resolver is called *)
(* (a call statement is evaluated, and on failure its call stack is        *)
(* rendered) leaves the store, the callable table and the environment      *)
(* unchanged, whether the resolution succeeds or not, and every reference  *)
(* resolves after the step as before it; the frames the renderer resolved  *)
(* are exactly those that resolve when asked again after the return.       *)
(***************************************************************************)
C15_Step ==
    (InLoop /\ Cur.tag = "Stmt" /\ Cur.stmt.kind = "call") =>
        /\ store' = store
        /\ package' = package
        /\ callables' = callables
        /\ env' = env
        /\ \A g \in GlobalIds :
              get_callable(store', callables', package', g) = Resolve(g)

C15_Again ==
    (pc = "Ready" /\ IsErr(ret)) =>
        \A k \in 1..Len(ret[1].errs) :
            LET t == ret[1].errs[k].stack_trace
            IN t # None =>
                  \A j \in 2..Len(t[1]) :
                      t[1][j].frame = "resolved" <=> Resolve(t[1][j].id) # None

C15_PureRead == [](C15_Again) /\ [][C15_Step]_vars

\* a call into the store failed one call deep and its frame was rendered,
\* in a session that has callables of its own
C15_Witness ==
    /\ pc = "Ready" /\ IsErr(ret)
    /\ Len(done.stack) = 1
    /\ ret[1].errs[1].stack_trace # None
    /\ callables # EmptyMap

(***************************************************************************)
(* C16: registering a callable item resets the running result to unit.  A  *)
(* line whose fragments all succeed and whose last callable-or-statement   *)
(* fragment is a callable declaration returns unit, whatever value an      *)
(* earlier statement of the line produced.                                 *)
(***************************************************************************)
C16_Step ==
    /\ (InLoop /\ Cur.tag = "Callable") => result' = Unit
    /\ OkReturn =>
          LET m == LastWithTag(frags, {"Stmt", "Callable"})
          IN (m > 0 /\ frags[m].tag = "Callable") => ret'[1].value = Unit

C16_DeclarationResetsResult == [][C16_Step]_vars

\* a statement produced a value that is not unit, then a callable was
\* registered, and the running result is unit
C16_Witness ==
    /\ pc = "InLine" /\ Len(trace) >= 2
    /\ trace[Len(trace)].outcome = "registered"
    /\ \E k \in 1..(Len(trace) - 1) :
          trace[k].outcome = "value" /\ trace[k].value # Unit
    /\ result = Unit

(***************************************************************************)
(* C17: an item fragment that is not a callable is discarded.  The step    *)
(* that handles it leaves the callable table, the environment, the store   *)
(* and the running result of the line unchanged, and the loop goes on to   *)
(* the next fragment.                                                      *)
(***************************************************************************)
C17_Step ==
    (InLoop /\ Cur.tag = "Item") =>
        /\ callables' = callables
        /\ env' = env
        /\ store' = store /\ package' = package
        /\ result' = result
        /\ ret' = ret
        /\ pc' = "InLine" /\ frags' = frags /\ idx' = idx + 1

C17_DiscardHasNoEffect == [][C17_Step]_vars

\* an item was discarded while the running result was a value that is not
\* unit and the table and the environment were not empty
C17_Witness ==
    /\ pc = "InLine" /\ Len(trace) >= 1
    /\ trace[Len(trace)].outcome = "discarded"
    /\ result # Unit
    /\ callables # EmptyMap
    /\ env # EmptyEnv

(***************************************************************************)
(* C18: the call stack of a failing evaluation is rendered by the resolver *)
(* the evaluation used, over the same store and table.  The step changes   *)
(* neither; the captured stack is the chain of declarations that ran,      *)
(* starting at the statement's callee, each frame the callee of the        *)
(* declaration the frame before it resolves to; and a failure k calls deep *)
(* gives a trace of the error message and exactly k frames, all resolved,  *)
(* in the order of the stack, none an unresolved placeholder.              *)
(***************************************************************************)
C18_Step ==
    (InLoop /\ Cur.tag = "Stmt") =>
        LET r == eval_stmt(store, callables, package, env, Cur.stmt)
        IN (~r.ok /\ r.stack # <<>>) =>
              /\ store' = store /\ callables' = callables /\ package' = package
              /\ r.stack[1] = Cur.stmt.target
              /\ \A j \in 1..Len(r.stack) : Resolve(r.stack[j]) # None
              /\ \A j \in 2..Len(r.stack) :
                    /\ Resolve(r.stack[j - 1])[1].kind = "call"
                    /\ Resolve(r.stack[j - 1])[1].callee = r.stack[j]
              /\ IsErr(ret')
              /\ ret'[1].errs[1].stack_trace # None
              /\ LET t == ret'[1].errs[1].stack_trace[1]
                 IN /\ Len(t) = 1 + Len(r.stack)
                    /\ t[1].frame = "error" /\ t[1].msg = r.error
                    /\ \A j \in 1..Len(r.stack) :
                          /\ t[j + 1].frame = "resolved"
                          /\ t[j + 1].id = r.stack[j]

C18_After ==
    (pc = "Ready" /\ IsErr(ret) /\ ret[1].errs[1].stack_trace # None) =>
        LET t == ret[1].errs[1].stack_trace[1]
        IN /\ Len(t) = 1 + Len(done.stack)
           /\ \A j \in 2..Len(t) : t[j].frame = "resolved"

C18_TraceHasKResolvedFrames == [](C18_After) /\ [][C18_Step]_vars

\* a failure two calls deep, entered through a session callable: the trace
\* has two resolved frames, the session's first
C18_Witness ==
    /\ pc = "Ready" /\ IsErr(ret)
    /\ Len(done.stack) = 2
    /\ done.stack[1][1] = package
    /\ ret[1].errs[1].stack_trace # None
    /\ Len(ret[1].errs[1].stack_trace[1]) = 3
    /\ ret[1].errs[1].stack_trace[1][2].frame = "resolved"
    /\ ret[1].errs[1].stack_trace[1][2].id = done.stack[1]
    /\ ret[1].errs[1].stack_trace[1][3].frame = "resolved"

(***************************************************************************)
(* C19: ownership of declarations is exclusive.  In every state of an      *)
(* instance the store's unit under the session handle is the empty unit    *)
(* put there at construction, so no interactively declared callable is in  *)
(* the store; a session reference is answered by the callable table alone, *)
(* even if the store held an item under the same handle and id; and a      *)
(* frozen-module reference is answered by the store alone, even if the     *)
(* table holds an entry under the same local id.                           *)
(***************************************************************************)
C19_ExclusiveOwnership ==
    Constructed =>
        /\ StoreGet(store, package) = Some(DefaultUnit)
        /\ \A g \in GlobalIds :
              /\ g[1] = package =>
                    /\ Resolve(g) = MapGet(callables, g[2])
                    /\ MapGet(StoreGet(store, g[1])[1].items, g[2]) = None
                    /\ get_callable([store EXCEPT ![package + 1] = StdUnit],
                                    callables, package, g)
                          = MapGet(callables, g[2])
              /\ g[1] # package =>
                    /\ get_callable(store, (g[2] :> DRet(9)), package, g)
                          = Resolve(g)
                    /\ Resolve(g) # Some(DRet(9))

\* both local ids are declared in the session and the session's unit in
\* the store is still empty
C19_Witness ==
    /\ pc = "Ready" /\ IsOk(ret)
    /\ DOMAIN callables = {0, 1}
    /\ store[package + 1] = DefaultUnit
    /\ Resolve(<<package, 0>>) = Some(callables[0])

(***************************************************************************)
(* C20: the running result does not carry over between lines.  Every call  *)
(* starts with the unit value, whatever the call before it returned; so a  *)
(* line of no fragments, or of non-callable items only, runs to the end,   *)
(* returns Ok(unit) and leaves the callable table and the environment as   *)
(* it found them.                                                          *)
(***************************************************************************)
OnlyItems(fs, n) == \A k \in 1..n : fs[k].tag = "Item"

C20_InLine ==
    (pc = "InLine" /\ OnlyItems(frags, idx - 1)) =>
        /\ result = Unit
        /\ callables = cs0
        /\ env = env0

C20_Step ==
    /\ (pc = "Ready" /\ pc' = "InLine") => result' = Unit
    /\ (pc = "InLine" /\ OnlyItems(frags, Len(frags))) =>
          /\ pc' = "Ready" <=> idx > Len(frags)
          /\ pc' = "Ready" =>
                /\ ret' = Some(Ok(Unit))
                /\ callables' = cs0
                /\ env' = env0

C20_ResultStartsFromUnit == [](C20_InLine) /\ [][C20_Step]_vars

\* a line of no fragments returned Ok(unit) in a session whose earlier
\* lines had declared a callable and bound a variable
C20_Witness ==
    /\ pc = "Ready"
    /\ ret = Some(Ok(Unit))
    /\ done.handled = 0 /\ done.skipped = 0
    /\ callables # EmptyMap
    /\ env # EmptyEnv

=============================================================================
